---- MODULE Spec2Model ----
(***************************************************************************)
(* define-ensure: the validator factory (defineEnsure: ensure,             *)
(* ensure.instance, the family's type guard) and the ad-hoc assertion      *)
(* (assert, isAssertError), each call modelled as one atomic step from     *)
(* the caller's idle state to the call's outcome (a return or a throw).    *)
(***************************************************************************)
EXTENDS Integers, Sequences, FiniteSets

VARIABLES env, families, last, configs, prev

vars == <<env, families, last, configs, prev>>

(***************************************************************************)
(* JavaScript values.  t is the kind of the value, cls the class of an     *)
(* object (or the role of a function), v its content or identity.          *)
(***************************************************************************)
Undefined == [t |-> "undefined", cls |-> "", v |-> ""]
Null == [t |-> "null", cls |-> "", v |-> ""]
True == [t |-> "boolean", cls |-> "", v |-> "true"]
False == [t |-> "boolean", cls |-> "", v |-> "false"]
Zero == [t |-> "number", cls |-> "", v |-> "0"]
NaN == [t |-> "number", cls |-> "", v |-> "NaN"]
Str(s) == [t |-> "string", cls |-> "", v |-> s]
Obj(c, id) == [t |-> "object", cls |-> c, v |-> id]
\* a lazy message: a zero-argument function returning the string s
Thunk(s) == [t |-> "function", cls |-> "thunk", v |-> s]
\* a formatter: msg => prefix + msg
Formatter(prefix) == [t |-> "function", cls |-> "formatter", v |-> prefix]
\* a lazy message that throws an instance of the class c when called
ThrowingThunk(c) == [t |-> "function", cls |-> "throwingThunk", v |-> c]
\* a formatter that throws an instance of the class c when called
ThrowingFormatter(c) == [t |-> "function", cls |-> "throwingFormatter", v |-> c]
\* a class (its constructor function)
Class(c) == [t |-> "function", cls |-> "class", v |-> c]

\* whether calling the function fn throws, and what it throws
Throws(fn) == fn.cls \in {"throwingThunk", "throwingFormatter"}

Thrown(fn) == Obj(fn.v, fn.cls)

\* typeof x
TypeOf(x) == IF x.t = "null" THEN "object" ELSE x.t

\* ToBoolean(x): the falsy values are false, null, undefined, 0, NaN and ""
ToBoolean(x) ==
    ~ \/ x.t \in {"undefined", "null"}
      \/ x = False
      \/ x = Zero
      \/ x = NaN
      \/ x = Str("")

\* a ?? b
Nullish(a, b) == IF a = Null \/ a = Undefined THEN b ELSE a

\* a destructuring default: { field = dflt } takes dflt only for undefined
Default(a, dflt) == IF a = Undefined THEN dflt ELSE a

(***************************************************************************)
(* Classes: each class with the class it extends ("" for none).            *)
(***************************************************************************)
Classes ==
    {"Object", "Array", "Date", "Error", "TypeError", "EnsureError",
     "AssertError", "InvariantError", "ValidationError", "AuthError",
     "FieldError", "BrokenError"}

Extends(c) ==
    CASE c = "Object" -> ""
      [] c \in {"Array", "Date", "Error"} -> "Object"
      [] c \in {"TypeError", "EnsureError", "AssertError", "InvariantError",
                "ValidationError", "AuthError", "BrokenError"} -> "Error"
      [] c = "FieldError" -> "ValidationError"

RECURSIVE IsSubclass(_, _)
IsSubclass(c, d) ==
    IF c = d THEN TRUE
    ELSE IF c = "" THEN FALSE
    ELSE IsSubclass(Extends(c), d)

\* variant of instanceof that also accepts instances of the classes ctor extends
InstanceOf_related(value, ctor) ==
    /\ value.t = "object"
    /\ IsSubclass(value.cls, ctor.v) \/ IsSubclass(ctor.v, value.cls)

\* the classes whose constructor throws (a TypeError) instead of building
ThrowingClasses == {"BrokenError"}

\* value instanceof ctor
InstanceOf(value, ctor) ==
    /\ value.t = "object"
    /\ IsSubclass(value.cls, ctor.v)

(***************************************************************************)
(* The environment the production probes read: the Deno runtime object     *)
(* (absent, present with the env read denied, or DENO_ENV readable), the   *)
(* Node process object (absent, or NODE_ENV readable), the bundler's       *)
(* import.meta.env.PROD flag, and whether Error.captureStackTrace exists.  *)
(***************************************************************************)
Envs ==
    {e \in [deno : {"absent", "denied", "production", "development"},
            node : {"absent", "production", "development"},
            bundlerProd : BOOLEAN,
            captureStackTrace : BOOLEAN] :
        \* Deno and Node run on V8, which has Error.captureStackTrace
        (e.deno # "absent" \/ e.node # "absent") => e.captureStackTrace}

\* variant of the probe whose catch block reports production
factory_isProduction_catchTrue(e) ==
    IF e.deno \in {"absent", "denied"}
    THEN TRUE
    ELSE Str(e.deno) = Str("production")

\* factory.ts isProduction: Deno.env.get("DENO_ENV") === "production",
\* false when the read throws (no Deno object, or permission denied)
factory_isProduction(e) ==
    IF e.deno \in {"absent", "denied"}
    THEN FALSE
    ELSE Str(e.deno) = Str("production")

\* assert.ts isProduction: Deno, then Node, then the bundler flag
assert_isProduction(e) ==
    IF e.deno # "absent" /\ e.deno # "denied"
    THEN Str(e.deno) = Str("production")
    ELSE IF e.node # "absent"
    THEN Str(e.node) = Str("production")
    ELSE IF e.bundlerProd
    THEN TRUE
    ELSE FALSE

\* utils.ts supportsCleanStack
supportsCleanStack(e) == e.captureStackTrace

(***************************************************************************)
(* Call arguments: a message (string or thunk) or an options object.       *)
(* self is the argument itself, fields the properties read from it.        *)
(***************************************************************************)
NoFields ==
    [message |-> Undefined, error |-> Undefined, cause |-> Undefined,
     strip |-> Undefined, formatMessage |-> Undefined, cleanStack |-> Undefined]

MessageArg(m) == [self |-> m, fields |-> NoFields]

OptionsArg(o) == [self |-> Obj("Object", "options"), fields |-> o]

\* the record { message: arg } built for the shorthand
ShorthandRecord(m) ==
    [self |-> Obj("Object", "shorthand"), fields |-> [NoFields EXCEPT !.message = m]]

\* variant of parseArg that takes only a string for the shorthand
parseArg_stringOnly(arg) ==
    IF TypeOf(arg.self) = "string"
    THEN ShorthandRecord(arg.self)
    ELSE arg

\* factory.ts parseArg: a fresh record for a string or a function, else the
\* argument itself
parseArg(arg) ==
    IF TypeOf(arg.self) = "string" \/ TypeOf(arg.self) = "function"
    THEN ShorthandRecord(arg.self)
    ELSE arg

\* assert.ts: const options = typeof arg === "string" || typeof arg ===
\* "function" ? { message: arg } : arg
assert_options(arg) ==
    IF TypeOf(arg.self) = "string" \/ TypeOf(arg.self) = "function"
    THEN ShorthandRecord(arg.self)
    ELSE arg

\* const { ... } = options throws a TypeError when options is undefined or null
DestructuringThrows(options) == options.self \in {Undefined, Null}

\* variant of resolveMessage that stringifies the message and never calls it
resolveMessage_uncalled(msg) ==
    [text |-> Str(msg.v), calls |-> 0, thrown |-> Undefined]

\* factory.ts resolveMessage: the string, and how often the thunk was called
\* and what the call threw, if it did
resolveMessage(msg) ==
    IF TypeOf(msg) = "function"
    THEN IF Throws(msg)
         THEN [text |-> Undefined, calls |-> 1, thrown |-> Thrown(msg)]
         ELSE [text |-> Str(msg.v), calls |-> 1, thrown |-> Undefined]
    ELSE [text |-> msg, calls |-> 0, thrown |-> Undefined]

\* variant of the formatter hook that runs the formatter on its own result
ApplyFormatter_twice(f, message) == Str(f.v \o f.v \o message.v)

\* formatMessage(message) for a formatter msg => prefix + msg
ApplyFormatter(f, message) == Str(f.v \o message.v)

\* the message property Error's constructor stores: String(message), or ""
\* when the argument is undefined
StoredMessage(message) ==
    IF message = Undefined THEN Str("")
    ELSE IF message.t = "string" THEN message
    ELSE Str(message.v)

\* new Ctor(message, cause ? { cause } : undefined): the error's class, its
\* message and its cause property (undefined when no options were passed),
\* and the value the constructor was handed as message
Construct(Ctor, message, cause, stack) ==
    [error |-> Obj(Ctor.v, "raised"),
     message |-> StoredMessage(message),
     ctorArg |-> message,
     cause |-> IF ToBoolean(cause) THEN cause ELSE Undefined,
     stack |-> stack]

\* variant of the trimming that leaves the trace as it is
CaptureStackTrace_keep(stack, fn) == stack

\* Error.captureStackTrace(error, fn): drop the frames up to and including fn
RECURSIVE CaptureStackTrace(_, _)
CaptureStackTrace(stack, fn) ==
    IF stack = <<>> THEN <<>>
    ELSE IF Head(stack) = fn THEN Tail(stack)
    ELSE CaptureStackTrace(Tail(stack), fn)

(***************************************************************************)
(* The outcome of one call: a return with its value, or a throw with the   *)
(* constructed error; and the work the call did on the way (invocations    *)
(* of the lazy message, of the formatter, reads of the production probe,   *)
(* normalizations of the argument, calls of an error constructor).         *)
(***************************************************************************)
Return(value) ==
    [outcome |-> "return", result |-> value, message |-> Undefined,
     ctorArg |-> Undefined, cause |-> Undefined, stack |-> <<>>,
     msgCalls |-> 0, fmtCalls |-> 0, probeCalls |-> 0,
     parseCalls |-> 0, ctorCalls |-> 0]

\* variant in which the constructed error is caught and the call returns
Throw_swallowed(err, msgCalls, fmtCalls, probeCalls) ==
    [outcome |-> "return", result |-> Undefined, message |-> Undefined,
     ctorArg |-> Undefined, cause |-> Undefined, stack |-> <<>>,
     msgCalls |-> msgCalls, fmtCalls |-> fmtCalls, probeCalls |-> probeCalls,
     parseCalls |-> 1, ctorCalls |-> 1]

\* throw error, for the error the pipeline constructed
Throw(err, msgCalls, fmtCalls, probeCalls) ==
    [outcome |-> "throw", result |-> err.error, message |-> err.message,
     ctorArg |-> err.ctorArg, cause |-> err.cause, stack |-> err.stack,
     msgCalls |-> msgCalls, fmtCalls |-> fmtCalls, probeCalls |-> probeCalls,
     parseCalls |-> 1, ctorCalls |-> 1]

\* variant in which the pipeline catches what a step threw and raises a
\* plain Error in its place
Propagate_reinterpreted(thrown, msgCalls, fmtCalls, probeCalls, ctorCalls) ==
    [outcome |-> "throw", result |-> Obj("Error", "rethrown"),
     message |-> Str("thrown"), ctorArg |-> Undefined, cause |-> thrown,
     stack |-> <<>>,
     msgCalls |-> msgCalls, fmtCalls |-> fmtCalls, probeCalls |-> probeCalls,
     parseCalls |-> 1, ctorCalls |-> ctorCalls]

\* an exception thrown by a step of the pipeline (the destructuring, the
\* message callable, the formatter, the constructor): nothing catches it, it
\* leaves the call as it is
Propagate(thrown, msgCalls, fmtCalls, probeCalls, ctorCalls) ==
    [outcome |-> "throw", result |-> thrown, message |-> Str("thrown"),
     ctorArg |-> Undefined, cause |-> Undefined, stack |-> <<>>,
     msgCalls |-> msgCalls, fmtCalls |-> fmtCalls, probeCalls |-> probeCalls,
     parseCalls |-> 1, ctorCalls |-> ctorCalls]

\* variant of the strip test written isProduction() && flag: always a read
probeReads_eager(flag) == 1

\* flag && isProduction(): the probe is read only when flag is truthy
probeReads(flag) == IF ToBoolean(flag) THEN 1 ELSE 0

(***************************************************************************)
(* The validator factory.                                                  *)
(***************************************************************************)
\* variant of the destructuring that drops the configured strip default
defineEnsure_noStrip(config) ==
    [config |-> config,
     DefaultError |-> config.error,
     name |-> config.name,
     formatMessage |-> config.formatMessage,
     defaultStrip |-> False]

\* what the closure created by defineEnsure(config) captures: the destructured
\* locals; config records the argument as it was when defineEnsure ran
defineEnsure(config) ==
    [config |-> config,
     DefaultError |-> config.error,
     name |-> config.name,
     formatMessage |-> config.formatMessage,
     defaultStrip |-> Default(config.strip, False)]

\* variant of shouldStrip written with || : a per-call false does not override
shouldStrip_or(strip, defaultStrip) == IF ToBoolean(strip) THEN strip ELSE defaultStrip

\* const shouldStrip = strip ?? defaultStrip
shouldStrip(strip, defaultStrip) == Nullish(strip, defaultStrip)

\* variant of the strip test that forgets shouldStrip
stripsMessage_production(should, e) == factory_isProduction(e)

\* if (shouldStrip && isProduction())
stripsMessage(should, e) == ToBoolean(should) /\ factory_isProduction(e)

\* variant of the stripped label written with || : an empty name is replaced
strippedMessage_or(name) == IF ToBoolean(name) THEN name ELSE Str("Invariant failed")

\* finalMessage = name ?? "Invariant failed"
strippedMessage(name) == Nullish(name, Str("Invariant failed"))

\* variant of the class selection that ignores the per-call override
Ctor_default(ErrorClass, DefaultError) == DefaultError

\* const Ctor = ErrorClass ?? DefaultError
Ctor(ErrorClass, DefaultError) == Nullish(ErrorClass, DefaultError)

\* the body of fail after the destructuring, on the options o: the strip
\* test, the message, the class, the throw
failWith(fam, o, e, frames) ==
    LET should == shouldStrip(o.strip, fam.defaultStrip)
        reads == probeReads(should)
        stripped == stripsMessage(should, e)
        resolved == resolveMessage(o.message)
        format == ToBoolean(fam.formatMessage)
        finalMessage ==
            IF stripped THEN strippedMessage(fam.name)
            ELSE IF format THEN ApplyFormatter(fam.formatMessage, resolved.text)
            ELSE resolved.text
        msgCalls == IF stripped THEN 0 ELSE resolved.calls
        fmtCalls == IF ~stripped /\ format THEN 1 ELSE 0
        ErrorCtor == Ctor(o.error, fam.DefaultError)
    IN  IF ~stripped /\ resolved.thrown # Undefined
        THEN Propagate(resolved.thrown, msgCalls, 0, reads, 0)
        ELSE IF ~stripped /\ format /\ Throws(fam.formatMessage)
        THEN Propagate(Thrown(fam.formatMessage), msgCalls, fmtCalls, reads, 0)
        ELSE IF ErrorCtor.v \in ThrowingClasses
        THEN Propagate(Obj("TypeError", "thrownByConstructor"),
                       msgCalls, fmtCalls, reads, 1)
        ELSE Throw(Construct(ErrorCtor, finalMessage, o.cause, <<"fail">> \o frames),
                   msgCalls, fmtCalls, reads)

\* variant of fail in which a stripped call raises the family's class whatever
\* the per-call override
fail_stripDropsOverride(fam, arg, e, frames) ==
    LET o == parseArg(arg).fields
    IN  IF DestructuringThrows(parseArg(arg))
        THEN Propagate(Obj("TypeError", "thrownByDestructuring"), 0, 0, 0, 0)
        ELSE IF stripsMessage(shouldStrip(o.strip, fam.defaultStrip), e)
        THEN failWith(fam, [o EXCEPT !.error = Undefined], e, frames)
        ELSE failWith(fam, o, e, frames)

\* fail(arg) of the family fam, called from the frames below it
fail(fam, arg, e, frames) ==
    IF DestructuringThrows(parseArg(arg))
    THEN Propagate(Obj("TypeError", "thrownByDestructuring"), 0, 0, 0, 0)
    ELSE failWith(fam, parseArg(arg).fields, e, frames)

\* variant of ensure that normalizes the argument before it tests the value
ensure_eagerParse(fam, value, arg, e) ==
    IF DestructuringThrows(parseArg(arg))
    THEN Propagate(Obj("TypeError", "thrownByDestructuring"), 0, 0, 0, 0)
    ELSE IF value = Null \/ value = Undefined \/ value = False
    THEN fail(fam, arg, e, <<"ensure", "caller">>)
    ELSE Return(value)

\* variant of ensure that tests general truthiness: if (!value)
ensure_truthy(fam, value, arg, e) ==
    IF ~ToBoolean(value)
    THEN fail(fam, arg, e, <<"ensure", "caller">>)
    ELSE Return(value)

\* ensure(value, arg)
ensure(fam, value, arg, e) ==
    IF value = Null \/ value = Undefined \/ value = False
    THEN fail(fam, arg, e, <<"ensure", "caller">>)
    ELSE Return(value)

\* variant of ensure.instance that compares the value's own class only
instance_exact(fam, value, constructor, arg, e) ==
    IF ~(value.t = "object" /\ value.cls = constructor.v)
    THEN fail(fam, arg, e, <<"instance", "caller">>)
    ELSE Return(value)

\* ensure.instance(value, constructor, arg)
instance(fam, value, constructor, arg, e) ==
    IF ~InstanceOf(value, constructor)
    THEN fail(fam, arg, e, <<"instance", "caller">>)
    ELSE Return(value)

\* variant of the type guard that compares the classes' parents
isError_sameParent(fam, value) ==
    /\ value.t = "object"
    /\ Extends(value.cls) = Extends(fam.DefaultError.v)

\* variant of the type guard that accepts every error
isError_anyError(fam, value) == InstanceOf(value, Class("Error"))

\* the family's type guard
isError(fam, value) == InstanceOf(value, fam.DefaultError)

(***************************************************************************)
(* The ad-hoc assertion.                                                   *)
(***************************************************************************)
\* variant of the body that runs the factory's pipeline on assert's defaults
assert_fail_pipeline(arg, e) ==
    IF DestructuringThrows(assert_options(arg))
    THEN Propagate(Obj("TypeError", "thrownByDestructuring"), 0, 0, 0, 0)
    ELSE failWith([config |-> Undefined,
                   DefaultError |-> Class("AssertError"),
                   name |-> Str("Assertion failed"),
                   formatMessage |-> assert_options(arg).fields.formatMessage,
                   defaultStrip |-> False],
                  assert_options(arg).fields, e, <<"assert", "caller">>)

\* the body of if (!condition) { ... }
assert_fail(arg, e) ==
    LET options == assert_options(arg).fields
        message == options.message
        ErrorClass == Default(options.error, Class("AssertError"))
        cause == options.cause
        formatMessage == options.formatMessage
        cleanStack == Default(options.cleanStack, False)
        strip == Default(options.strip, False)
        lazy == TypeOf(message) = "function"
        resolved == IF lazy THEN Str(message.v) ELSE message
        format == ToBoolean(formatMessage)
        formatted == IF format THEN ApplyFormatter(formatMessage, resolved) ELSE resolved
        reads == probeReads(strip)
        stripped == ToBoolean(strip) /\ assert_isProduction(e)
        finalMessage == IF stripped THEN Str("Assertion failed") ELSE formatted
        error == Construct(ErrorClass, finalMessage, cause, <<"assert", "caller">>)
        cleaned ==
            IF ToBoolean(cleanStack) /\ e.captureStackTrace
            THEN [error EXCEPT !.stack = CaptureStackTrace(error.stack, "assert")]
            ELSE error
        msgCalls == IF lazy THEN 1 ELSE 0
        fmtCalls == IF format THEN 1 ELSE 0
    IN  IF DestructuringThrows(assert_options(arg))
        THEN Propagate(Obj("TypeError", "thrownByDestructuring"), 0, 0, 0, 0)
        ELSE IF lazy /\ Throws(message)
        THEN Propagate(Thrown(message), 1, 0, 0, 0)
        ELSE IF format /\ Throws(formatMessage)
        THEN Propagate(Thrown(formatMessage), msgCalls, 1, 0, 0)
        ELSE IF ErrorClass.v \in ThrowingClasses
        THEN Propagate(Obj("TypeError", "thrownByConstructor"),
                       msgCalls, fmtCalls, reads, 1)
        ELSE Throw(cleaned, msgCalls, fmtCalls, reads)

\* variant of assert that fails on null, undefined and false only
assert_presence(condition, arg, e) ==
    IF condition = Null \/ condition = Undefined \/ condition = False
    THEN assert_fail(arg, e)
    ELSE Return(Undefined)

\* assert(condition, arg)
assert(condition, arg, e) ==
    IF ~ToBoolean(condition)
    THEN assert_fail(arg, e)
    ELSE Return(Undefined)

isAssertError(value) == InstanceOf(value, Class("AssertError"))

(***************************************************************************)
(* Inputs of the calls.                                                    *)
(***************************************************************************)
\* the families the caller defines: const [validate, isValidationError] = ...
FamilyIds == {1}

\* invariant.ts: the configuration of the invariant validator
InvariantConfig ==
    [error |-> Class("InvariantError"), name |-> Str("Invariant failed"),
     formatMessage |-> Undefined, strip |-> True]

FamilyConfigs ==
    [error : {Class("ValidationError")},
     name : {Undefined, Str("validate"), Str("")},
     formatMessage : {Undefined, Formatter("[V] ")},
     strip : {Undefined, True, False}]
    \cup {InvariantConfig}

Messages == {Str("Required"), Thunk("Lazy message")}

Causes == {Undefined, Obj("Error", "rootCause"), Zero, Str(""), False, Null}

EnsureArgs ==
    {MessageArg(m) : m \in Messages}
    \cup
    {OptionsArg([NoFields EXCEPT !.message = o.message, !.error = o.error,
                                 !.cause = o.cause, !.strip = o.strip]) :
        o \in [message : Messages,
               error : {Undefined, Class("AuthError"), Class("FieldError")},
               cause : Causes,
               strip : {Undefined, True, False}]}
    \cup
    \* an options record that carries a formatMessage of its own
    {OptionsArg([NoFields EXCEPT !.message = o.message, !.strip = o.strip,
                                 !.formatMessage = Formatter("[C] ")]) :
        o \in [message : Messages, strip : {Undefined, True, False}]}

AssertArgs ==
    {MessageArg(m) : m \in Messages}
    \cup
    {OptionsArg(o) :
        o \in [message : Messages,
               error : {Undefined, Class("ValidationError")},
               cause : {Undefined, Obj("Error", "rootCause"), Zero, Null},
               strip : {Undefined, True, False},
               formatMessage : {Undefined, Formatter("[V] ")},
               cleanStack : {Undefined, True, False}]}

\* values handed to ensure
EnsuredValues ==
    {Null, Undefined, False, Zero, Str(""), NaN, Obj("Array", "emptyArray"),
     Str("hello")}

\* conditions handed to assert
Conditions ==
    {False, Null, Undefined, Zero, Str(""), NaN, True, Str("hello")}

\* values and constructors handed to ensure.instance
InstanceValues == {Obj("Date", "date"), Obj("TypeError", "typeError"), Str("hello")}

InstanceConstructors == {Class("Date"), Class("Error")}

\* values handed to the type guards
GuardedValues ==
    {Null, Undefined, Str("string"), Obj("Object", "plain"),
     Obj("Error", "error"), Obj("TypeError", "typeError"),
     Obj("ValidationError", "validationError"), Obj("AuthError", "authError"),
     Obj("FieldError", "fieldError"), Obj("AssertError", "assertError"),
     Obj("InvariantError", "invariantError")}

(***************************************************************************)
(* State: the environment, the families defined so far, the call the       *)
(* caller has just made (NoCall between calls), the config objects the     *)
(* caller passed to defineEnsure and still holds, and an earlier call the  *)
(* caller remembers together with the environment it ran in.               *)
(***************************************************************************)
NoFamily ==
    [config |-> Undefined, DefaultError |-> Undefined, name |-> Undefined,
     formatMessage |-> Undefined, defaultStrip |-> Undefined]

NoCall ==
    [op |-> "none", fam |-> 0, value |-> Undefined, ctor |-> Undefined,
     arg |-> MessageArg(Undefined), out |-> Return(Undefined)]

Call(op, f, value, ctor, arg, out) ==
    [op |-> op, fam |-> f, value |-> value, ctor |-> ctor, arg |-> arg, out |-> out]

NoHistory == [call |-> NoCall, env |-> Undefined]

Init ==
    /\ env \in Envs
    /\ families = [f \in FamilyIds |-> NoFamily]
    /\ last = NoCall
    /\ configs = [f \in FamilyIds |-> Undefined]
    /\ prev = NoHistory

\* the environment changes between two calls
SetEnv ==
    /\ last = NoCall
    /\ \E e \in Envs :
        /\ e # env
        /\ env' = e
    /\ UNCHANGED <<families, last, configs, prev>>

\* const [checker, guard] = defineEnsure(config)
DefineEnsure ==
    /\ last = NoCall
    /\ \E f \in DOMAIN families, config \in FamilyConfigs :
        /\ families[f] = NoFamily
        /\ families' = [families EXCEPT ![f] = defineEnsure(config)]
        /\ configs' = [configs EXCEPT ![f] = config]
    /\ UNCHANGED <<env, last, prev>>

\* checker(value, arg)
Ensure ==
    /\ last = NoCall
    /\ \E f \in DOMAIN families, value \in EnsuredValues, arg \in EnsureArgs :
        /\ families[f] # NoFamily
        /\ last' = Call("ensure", f, value, Undefined, arg,
                        ensure(families[f], value, arg, env))
    /\ UNCHANGED <<env, families, configs, prev>>

\* checker.instance(value, constructor, arg)
Instance ==
    /\ last = NoCall
    /\ \E f \in DOMAIN families, value \in InstanceValues,
          constructor \in InstanceConstructors, arg \in EnsureArgs :
        /\ families[f] # NoFamily
        /\ last' = Call("instance", f, value, constructor, arg,
                        instance(families[f], value, constructor, arg, env))
    /\ UNCHANGED <<env, families, configs, prev>>

\* guard(value)
IsError ==
    /\ last = NoCall
    /\ \E f \in DOMAIN families, value \in GuardedValues :
        /\ families[f] # NoFamily
        /\ last' = Call("isError", f, value, Undefined, MessageArg(Undefined),
                        Return(IF isError(families[f], value) THEN True ELSE False))
    /\ UNCHANGED <<env, families, configs, prev>>

\* assert(condition, arg)
AssertCall ==
    /\ last = NoCall
    /\ \E condition \in Conditions, arg \in AssertArgs :
        last' = Call("assert", 0, condition, Undefined, arg, assert(condition, arg, env))
    /\ UNCHANGED <<env, families, configs, prev>>

\* isAssertError(value)
IsAssertError ==
    /\ last = NoCall
    /\ \E value \in GuardedValues :
        last' = Call("isAssertError", 0, value, Undefined, MessageArg(Undefined),
                     Return(IF isAssertError(value) THEN True ELSE False))
    /\ UNCHANGED <<env, families, configs, prev>>

\* the caller has seen the outcome (the value, or the error it caught) and goes on
Continue ==
    /\ last # NoCall
    /\ last' = NoCall
    /\ UNCHANGED <<env, families, configs, prev>>

Next ==
    \/ SetEnv
    \/ DefineEnsure
    \/ Ensure
    \/ Instance
    \/ IsError
    \/ AssertCall
    \/ IsAssertError
    \/ Continue

Spec == Init /\ [][Next]_vars

(***************************************************************************)
(* Sequences of calls on two families: the caller defines two families,    *)
(* keeps and rewrites the config objects it passed, changes the            *)
(* environment between calls and remembers one earlier call to compare     *)
(* the present one with.                                                   *)
(***************************************************************************)
TwoFamilies == {1, 2}

\* two configurations that differ in every field
PairConfigs ==
    {[error |-> Class("ValidationError"), name |-> Str("validate"),
      formatMessage |-> Formatter("[V] "), strip |-> True],
     [error |-> Class("AuthError"), name |-> Undefined,
      formatMessage |-> Undefined, strip |-> Undefined]}

\* Deno in production, Deno in development, Node in production
PairEnvs ==
    {e \in Envs :
        /\ ~e.bundlerProd
        /\ e.captureStackTrace
        /\ \/ e.deno \in {"production", "development"} /\ e.node = "absent"
           \/ e.deno = "absent" /\ e.node = "production"}

\* a message alone, a strip override either way, an error override with a cause
PairArgs ==
    {MessageArg(Str("Required")),
     OptionsArg([NoFields EXCEPT !.message = Str("Required"), !.strip = True]),
     OptionsArg([NoFields EXCEPT !.message = Str("Required"), !.strip = False]),
     OptionsArg([NoFields EXCEPT !.message = Str("Required"),
                                 !.error = Class("TypeError"),
                                 !.cause = Obj("Error", "rootCause")])}

PairValues == {Null, Str("hello")}

PairGuardedValues ==
    {Obj("ValidationError", "validationError"), Obj("AuthError", "authError"),
     Obj("TypeError", "typeError")}

InitPair ==
    /\ env \in PairEnvs
    /\ families = [f \in TwoFamilies |-> NoFamily]
    /\ last = NoCall
    /\ configs = [f \in TwoFamilies |-> Undefined]
    /\ prev = NoHistory

\* the environment changes between two calls
ChangeEnv ==
    /\ last = NoCall
    /\ \E e \in PairEnvs :
        /\ e # env
        /\ env' = e
    /\ UNCHANGED <<families, last, configs, prev>>

\* const [checker, guard] = defineEnsure(config)
DefineFamily ==
    /\ last = NoCall
    /\ \E f \in DOMAIN families, config \in PairConfigs :
        /\ families[f] = NoFamily
        /\ families' = [families EXCEPT ![f] = defineEnsure(config)]
        /\ configs' = [configs EXCEPT ![f] = config]
    /\ UNCHANGED <<env, last, prev>>

\* variant in which the closure reads the config object at each call, so that
\* writes to the object reach the family
MutateConfig_live ==
    /\ last = NoCall
    /\ \E f \in DOMAIN families, config \in PairConfigs :
        /\ families[f] # NoFamily
        /\ config # configs[f]
        /\ configs' = [configs EXCEPT ![f] = config]
        /\ families' = [families EXCEPT ![f] =
                            [defineEnsure(config) EXCEPT !.config = families[f].config]]
    /\ UNCHANGED <<env, last, prev>>

\* the caller assigns to the fields of a config object after defineEnsure
\* returned: the locals destructured from it at creation do not change
MutateConfig ==
    /\ last = NoCall
    /\ \E f \in DOMAIN families, config \in PairConfigs :
        /\ families[f] # NoFamily
        /\ config # configs[f]
        /\ configs' = [configs EXCEPT ![f] = config]
    /\ UNCHANGED <<env, families, last, prev>>

\* variant in which the probe's result is the one of the remembered call
CheckerCall_staleProbe ==
    /\ last = NoCall
    /\ \E f \in DOMAIN families, value \in PairValues, arg \in PairArgs :
        /\ families[f] # NoFamily
        /\ last' = Call("ensure", f, value, Undefined, arg,
                        ensure(families[f], value, arg,
                               IF prev = NoHistory THEN env ELSE prev.env))
    /\ UNCHANGED <<env, families, configs, prev>>

\* checker(value, arg)
CheckerCall ==
    /\ last = NoCall
    /\ \E f \in DOMAIN families, value \in PairValues, arg \in PairArgs :
        /\ families[f] # NoFamily
        /\ last' = Call("ensure", f, value, Undefined, arg,
                        ensure(families[f], value, arg, env))
    /\ UNCHANGED <<env, families, configs, prev>>

\* checker.instance(value, constructor, arg) on a Date, against Error and Date
InstanceCall ==
    /\ last = NoCall
    /\ \E f \in DOMAIN families, constructor \in InstanceConstructors,
          arg \in PairArgs :
        /\ families[f] # NoFamily
        /\ last' = Call("instance", f, Obj("Date", "date"), constructor, arg,
                        instance(families[f], Obj("Date", "date"), constructor,
                                 arg, env))
    /\ UNCHANGED <<env, families, configs, prev>>

\* guard(value)
GuardCall ==
    /\ last = NoCall
    /\ \E f \in DOMAIN families, value \in PairGuardedValues :
        /\ families[f] # NoFamily
        /\ last' = Call("isError", f, value, Undefined, MessageArg(Undefined),
                        Return(IF isError(families[f], value) THEN True ELSE False))
    /\ UNCHANGED <<env, families, configs, prev>>

\* assert(condition, arg)
AssertionCall ==
    /\ last = NoCall
    /\ \E condition \in {False, True}, arg \in PairArgs :
        last' = Call("assert", 0, condition, Undefined, arg, assert(condition, arg, env))
    /\ UNCHANGED <<env, families, configs, prev>>

\* the caller has seen the outcome and goes on; it may keep the call, and the
\* environment it ran in, to compare a later call with
Resume ==
    /\ last # NoCall
    /\ last' = NoCall
    /\ \/ prev' = [call |-> last, env |-> env]
       \/ UNCHANGED prev
    /\ UNCHANGED <<env, families, configs>>

NextPair ==
    \/ ChangeEnv
    \/ DefineFamily
    \/ MutateConfig
    \/ CheckerCall
    \/ InstanceCall
    \/ GuardCall
    \/ AssertionCall
    \/ Resume

SpecPair == InitPair /\ [][NextPair]_vars

(***************************************************************************)
(* Calls off the type contract: a missing or null argument, false as the   *)
(* message, a message callable, a formatter or an error class that throws. *)
(* The caller may hand the error it caught to the family's guard.          *)
(***************************************************************************)
EdgeEnvs ==
    {e \in Envs :
        /\ e.deno \in {"production", "development"}
        /\ e.node = "absent"
        /\ ~e.bundlerProd
        /\ e.captureStackTrace}

EdgeConfigs ==
    {[error |-> Class("ValidationError"), name |-> Str("validate"),
      formatMessage |-> Undefined, strip |-> Undefined],
     [error |-> Class("ValidationError"), name |-> Str("validate"),
      formatMessage |-> Formatter("[V] "), strip |-> True],
     [error |-> Class("ValidationError"), name |-> Undefined,
      formatMessage |-> ThrowingFormatter("AuthError"), strip |-> Undefined],
     [error |-> Class("BrokenError"), name |-> Undefined,
      formatMessage |-> Undefined, strip |-> Undefined]}

EdgeMessages ==
    {Str("Required"), Thunk("Lazy message"), False,
     ThrowingThunk("TypeError"), ThrowingThunk("ValidationError")}

\* no argument, null, a message alone, options with and without strip
EdgeArgs ==
    {MessageArg(Undefined), MessageArg(Null)}
    \cup
    {MessageArg(m) : m \in EdgeMessages \ {False}}
    \cup
    {OptionsArg([NoFields EXCEPT !.message = o.message, !.strip = o.strip,
                                 !.error = o.error]) :
        o \in [message : EdgeMessages,
               strip : {Undefined, True},
               error : {Undefined, Class("BrokenError")}]}

\* the same, and options with a formatter of their own
EdgeAssertArgs ==
    EdgeArgs
    \cup
    {OptionsArg([NoFields EXCEPT !.message = o.message, !.strip = o.strip,
                                 !.formatMessage = o.formatMessage]) :
        o \in [message : EdgeMessages,
               strip : {Undefined, True},
               formatMessage : {Formatter("[V] "), ThrowingFormatter("AuthError")}]}

InitEdge ==
    /\ env \in EdgeEnvs
    /\ families = [f \in FamilyIds |-> NoFamily]
    /\ last = NoCall
    /\ configs = [f \in FamilyIds |-> Undefined]
    /\ prev = NoHistory

\* const [checker, guard] = defineEnsure(config)
DefineAny ==
    /\ last = NoCall
    /\ \E f \in DOMAIN families, config \in EdgeConfigs :
        /\ families[f] = NoFamily
        /\ families' = [families EXCEPT ![f] = defineEnsure(config)]
        /\ configs' = [configs EXCEPT ![f] = config]
    /\ UNCHANGED <<env, last, prev>>

\* checker(value, arg)
EnsureAny ==
    /\ last = NoCall
    /\ \E f \in DOMAIN families, value \in {Null, Str("hello")}, arg \in EdgeArgs :
        /\ families[f] # NoFamily
        /\ last' = Call("ensure", f, value, Undefined, arg,
                        ensure(families[f], value, arg, env))
    /\ UNCHANGED <<env, families, configs, prev>>

\* checker.instance(value, constructor, arg)
InstanceAny ==
    /\ last = NoCall
    /\ \E f \in DOMAIN families, constructor \in InstanceConstructors,
          arg \in EdgeArgs :
        /\ families[f] # NoFamily
        /\ last' = Call("instance", f, Obj("Date", "date"), constructor, arg,
                        instance(families[f], Obj("Date", "date"), constructor,
                                 arg, env))
    /\ UNCHANGED <<env, families, configs, prev>>

\* assert(condition, arg)
AssertAny ==
    /\ last = NoCall
    /\ \E condition \in {False, True}, arg \in EdgeAssertArgs :
        last' = Call("assert", 0, condition, Undefined, arg, assert(condition, arg, env))
    /\ UNCHANGED <<env, families, configs, prev>>

\* parseArg(arg), and the same normalization as assert writes it inline
ParseAny ==
    /\ last = NoCall
    /\ \E arg \in EdgeAssertArgs :
        \/ last' = Call("parseArg", 0, Undefined, Undefined, arg, Return(parseArg(arg)))
        \/ last' = Call("assertOptions", 0, Undefined, Undefined, arg,
                        Return(assert_options(arg)))
    /\ UNCHANGED <<env, families, configs, prev>>

\* try { checker(...) } catch (e) { guard(e) }: the caller hands the error it
\* caught to the family's guard
GuardCaught ==
    /\ last.op \in {"ensure", "instance", "assert"}
    /\ last.out.outcome = "throw"
    /\ \E f \in DOMAIN families :
        /\ families[f] # NoFamily
        /\ last' = Call("isError", f, last.out.result, Undefined,
                        MessageArg(Undefined),
                        Return(IF isError(families[f], last.out.result)
                               THEN True ELSE False))
    /\ prev' = [call |-> last, env |-> env]
    /\ UNCHANGED <<env, families, configs>>

\* the caller goes on and forgets the call
Proceed ==
    /\ last # NoCall
    /\ last' = NoCall
    /\ prev' = NoHistory
    /\ UNCHANGED <<env, families, configs>>

NextEdge ==
    \/ DefineAny
    \/ EnsureAny
    \/ InstanceAny
    \/ AssertAny
    \/ ParseAny
    \/ GuardCaught
    \/ Proceed

SpecEdge == InitEdge /\ [][NextEdge]_vars

(***************************************************************************)
(* Vocabulary of the properties: the call in `last`, what the caller       *)
(* supplied, and what the family was configured with.                      *)
(***************************************************************************)
FactoryCall == last.op \in {"ensure", "instance"}

Threw == last.out.outcome = "throw"

Returned == last.out.outcome = "return"

Family == families[last.fam]

SuppliedMessage ==
    IF last.arg.self.t = "object" THEN last.arg.fields.message ELSE last.arg.self

LazyMessage == SuppliedMessage.t = "function"

\* the text of the supplied message (what the lazy message returns)
MessageText == Str(SuppliedMessage.v)

\* per-call strip when present, else the family's, else false
EffectiveStrip ==
    IF last.arg.fields.strip \in {True, False} THEN last.arg.fields.strip = True
    ELSE IF Family.config.strip \in {True, False} THEN Family.config.strip = True
    ELSE FALSE

\* the family's name, or the fallback literal
FamilyLabel ==
    IF Family.config.name = Undefined THEN Str("Invariant failed") ELSE Family.config.name

\* the message text after the formatter f, if there is one
Formatted(f) == IF f = Undefined THEN MessageText ELSE Str(f.v \o MessageText.v)

\* C1: a factory checker raises iff the value is null, undefined or false;
\* every other value (0, "", NaN, an empty array, ...) is returned unchanged.
C1_EnsureRaisesOnlyOnSentinels ==
    last.op = "ensure" =>
        /\ Threw <=> last.value \in {Null, Undefined, False}
        /\ Returned <=> last.value \notin {Null, Undefined, False}
        /\ Returned => last.out.result = last.value

C1_Witness ==
    /\ last.op = "ensure"
    /\ last.value = NaN
    /\ Returned
    /\ last.out.result = NaN

\* C2: assert raises on every falsy condition (false, null, undefined, 0, "",
\* NaN) and returns nothing, without raising, on every truthy condition.
C2_AssertRaisesOnFalsy ==
    last.op = "assert" =>
        /\ Threw <=> last.value \in {False, Null, Undefined, Zero, Str(""), NaN}
        /\ Returned <=> last.value \notin {False, Null, Undefined, Zero, Str(""), NaN}
        /\ Returned => last.out.result = Undefined

C2_Witness ==
    /\ last.op = "assert"
    /\ last.value = Zero
    /\ Threw

\* whether the failing call of `last` takes the stripped branch
Stripped ==
    IF last.op = "assert"
    THEN last.arg.fields.strip = True /\ assert_isProduction(env)
    ELSE EffectiveStrip /\ factory_isProduction(env)

CallWithLazyMessage == last.op \in {"ensure", "instance", "assert"} /\ LazyMessage

\* C3 as stated: the lazy message is invoked 0 times on a passing call and
\* exactly 1 time on every failing call, for both primitives.
C3_LazyInvokedOnceOnEveryFailure ==
    CallWithLazyMessage =>
        /\ Returned => last.out.msgCalls = 0
        /\ Threw => last.out.msgCalls = 1

\* C3, amended: the lazy message is invoked 0 times on a passing call, exactly
\* 1 time on a failing call that is not stripped, and 0 times on a failing
\* factory call that is stripped (effective strip true, probe production).
C3_LazyInvokedOnceUnlessStripped ==
    CallWithLazyMessage =>
        /\ Returned => last.out.msgCalls = 0
        /\ Threw /\ ~Stripped => last.out.msgCalls = 1
        /\ Threw /\ Stripped /\ FactoryCall => last.out.msgCalls = 0

C3_Witness ==
    /\ last.op = "instance"
    /\ last.arg.self.t = "object"
    /\ LazyMessage
    /\ Threw
    /\ ~Stripped
    /\ last.out.msgCalls = 1

\* C4: a failing factory call with effective strip true while the probe
\* reports production raises the family's name, or "Invariant failed" when no
\* name was configured, whatever the message was; neither the lazy message
\* nor the formatter is invoked.
C4_StrippedMessageIsLabel ==
    FactoryCall /\ Threw /\ EffectiveStrip /\ factory_isProduction(env) =>
        /\ last.out.message = FamilyLabel
        /\ last.out.msgCalls = 0
        /\ last.out.fmtCalls = 0

C4_Witness ==
    /\ last.op = "ensure"
    /\ Threw
    /\ EffectiveStrip
    /\ factory_isProduction(env)
    /\ LazyMessage
    /\ Family.config.formatMessage # Undefined
    /\ Family.config.name = Str("validate")
    /\ last.out.message = Str("validate")

\* C5: with effective strip false the raised message is the resolved message
\* after the optional formatter, in every environment (production or not),
\* for factory checkers and for assert.
C5_UnstrippedMessageIsFull ==
    /\ FactoryCall /\ Threw /\ ~EffectiveStrip =>
            last.out.message = Formatted(Family.config.formatMessage)
    /\ last.op = "assert" /\ Threw /\ last.arg.fields.strip # True =>
            last.out.message = Formatted(last.arg.fields.formatMessage)

C5_Witness ==
    /\ FactoryCall
    /\ Threw
    /\ last.arg.fields.strip = False
    /\ Family.config.strip = True
    /\ factory_isProduction(env)
    /\ Family.config.formatMessage # Undefined
    /\ last.out.message = Str("[V] Required")

Unrelated(a, b) == ~IsSubclass(a, b) /\ ~IsSubclass(b, a)

\* C6: a failing call on a family of class A with a per-call override error: B,
\* B unrelated to A, raises an instance of B on which the family's guard
\* returns false; without an override it raises an instance of A and the
\* guard returns true.
C6_ErrorOverride ==
    FactoryCall /\ Threw =>
        /\ /\ last.arg.fields.error # Undefined
           /\ Unrelated(last.arg.fields.error.v, Family.config.error.v)
           => /\ last.out.result.cls = last.arg.fields.error.v
              /\ ~isError(Family, last.out.result)
        /\ last.arg.fields.error = Undefined
           => /\ last.out.result.cls = Family.config.error.v
              /\ isError(Family, last.out.result)

C6_Witness ==
    /\ FactoryCall
    /\ Threw
    /\ Family.config.error = Class("ValidationError")
    /\ last.arg.fields.error = Class("AuthError")
    /\ last.out.result.cls = "AuthError"
    /\ ~isError(Family, last.out.result)

\* C7: a failing call with options { cause: X } raises an error whose cause is X,
\* for every X (also 0, "", false and null), in factory checkers and in assert.
C7_CauseRoundTrips ==
    /\ last.op \in {"ensure", "instance", "assert"}
    /\ Threw
    /\ last.arg.self.t = "object"
    => last.out.cause = last.arg.fields.cause

\* C8 as stated: ensure.instance returns the value when it is an instance of
\* the constructor (inheritance included); otherwise it raises the family's
\* error with the supplied message.
C8_InstanceRaisesSuppliedMessage ==
    last.op = "instance" =>
        /\ InstanceOf(last.value, last.ctor) => Returned /\ last.out.result = last.value
        /\ ~InstanceOf(last.value, last.ctor) =>
            /\ Threw
            /\ last.out.result.cls = Family.config.error.v
            /\ last.out.message = MessageText

\* C8, amended: as C8, but the raised error is of the family's class when the
\* call carries no error override, and the message is the supplied message
\* when the family has no formatter and the call is not stripped.
C8_InstanceCheck ==
    last.op = "instance" =>
        /\ InstanceOf(last.value, last.ctor) => Returned /\ last.out.result = last.value
        /\ ~InstanceOf(last.value, last.ctor) =>
            /\ Threw
            /\ last.arg.fields.error = Undefined =>
                    last.out.result.cls = Family.config.error.v
            /\ Family.config.formatMessage = Undefined /\ ~Stripped =>
                    last.out.message = MessageText

C8_Witness ==
    /\ last.op = "instance"
    /\ last.value = Obj("Date", "date")
    /\ last.ctor = Class("Error")
    /\ Threw
    /\ last.out.result.cls = "ValidationError"
    /\ last.out.message = Str("Required")

\* C9: the family's type guard and isAssertError return true iff the value is
\* an instance of the configured class; on null, undefined, strings, plain
\* objects and errors of other classes they return false; they never raise.
C9_TypeGuards ==
    /\ last.op = "isError" =>
        /\ Returned
        /\ last.out.result \in {True, False}
        /\ last.out.result = True <=>
                /\ last.value.t = "object"
                /\ IsSubclass(last.value.cls, Family.config.error.v)
    /\ last.op = "isAssertError" =>
        /\ Returned
        /\ last.out.result \in {True, False}
        /\ last.out.result = True <=>
                /\ last.value.t = "object"
                /\ IsSubclass(last.value.cls, "AssertError")
    /\ /\ last.op \in {"isError", "isAssertError"}
       /\ last.value \in {Null, Undefined, Str("string"), Obj("Object", "plain"),
                          Obj("Error", "error"), Obj("TypeError", "typeError")}
       => last.out.result = False

C9_Witness ==
    /\ last.op = "isError"
    /\ last.value = Obj("ValidationError", "validationError")
    /\ Returned
    /\ last.out.result = True

\* C10: on a failing factory call the strip policy is the per-call strip when
\* present, else the family's, else false: the label is raised exactly when
\* that policy is true and the probe reports production; so strip: false on a
\* strip: true family keeps the message in production and strip: true on a
\* family with strip false or unset strips it.
C10_StripPrecedence ==
    FactoryCall /\ Threw =>
        /\ last.out.message = FamilyLabel <=> (EffectiveStrip /\ factory_isProduction(env))
        /\ /\ last.arg.fields.strip = False
           /\ Family.config.strip = True
           /\ factory_isProduction(env)
           => last.out.message = Formatted(Family.config.formatMessage)
        /\ /\ last.arg.fields.strip = True
           /\ Family.config.strip \in {False, Undefined}
           /\ factory_isProduction(env)
           => last.out.message = FamilyLabel

C10_Witness ==
    /\ FactoryCall
    /\ Threw
    /\ last.arg.fields.strip = True
    /\ Family.config.strip = Undefined
    /\ factory_isProduction(env)
    /\ last.out.message = FamilyLabel

\* the formatter configured for the call of `last`: the family's for a factory
\* call, the one in the options for assert
ConfiguredFormatter ==
    IF last.op = "assert" THEN last.arg.fields.formatMessage
    ELSE Family.config.formatMessage

CheckCall == last.op \in {"ensure", "instance", "assert"}

\* C11: on a failing call that is not stripped a configured formatter is
\* applied to the resolved message exactly once and its result is the raised
\* message ("[V] " + s on "Required" raises "[V] Required"); on a passing call
\* the formatter is applied 0 times; for factory checkers and for assert.
C11_FormatterAppliedOnce ==
    CheckCall =>
        /\ Returned => last.out.fmtCalls = 0
        /\ Threw /\ ~Stripped /\ ConfiguredFormatter # Undefined =>
            /\ last.out.fmtCalls = 1
            /\ last.out.message = Str(ConfiguredFormatter.v \o MessageText.v)
        /\ /\ Threw /\ ~Stripped
           /\ ConfiguredFormatter = Formatter("[V] ")
           /\ SuppliedMessage = Str("Required")
           => last.out.message = Str("[V] Required")

C11_Witness ==
    /\ last.op = "ensure"
    /\ last.value = Null
    /\ last.arg = MessageArg(Str("Required"))
    /\ Family.config.formatMessage = Formatter("[V] ")
    /\ Threw
    /\ ~Stripped
    /\ last.out.fmtCalls = 1
    /\ last.out.message = Str("[V] Required")

\* C12: on a failing factory call that is not stripped, when the options
\* record carries its own formatMessage and the family has one too, the
\* per-call formatter is the one applied to the resolved message.
C12_PerCallFormatterWins ==
    /\ FactoryCall
    /\ Threw
    /\ ~Stripped
    /\ last.arg.fields.formatMessage # Undefined
    /\ Family.config.formatMessage # Undefined
    => last.out.message = Str(last.arg.fields.formatMessage.v \o MessageText.v)

\* the remembered call and the present one are the same call: the same
\* operation of the same family on the same inputs in the same environment
SameCallAsRemembered ==
    /\ prev # NoHistory
    /\ last # NoCall
    /\ prev.call.op = last.op
    /\ prev.call.fam = last.fam
    /\ prev.call.value = last.value
    /\ prev.call.ctor = last.ctor
    /\ prev.call.arg = last.arg
    /\ prev.env = env

\* C13: whatever calls were made on whatever families with whatever per-call
\* overrides, and whatever was written to the config objects afterwards,
\* each family's stored defaults are the ones given at creation; a call
\* behaves as the same call did earlier; a call without overrides raises the
\* class, and the label or the formatted message, of the creation config.
C13_FamilyDefaultsFixed ==
    /\ \A f \in DOMAIN families :
        families[f] # NoFamily =>
            /\ families[f].DefaultError = families[f].config.error
            /\ families[f].name = families[f].config.name
            /\ families[f].formatMessage = families[f].config.formatMessage
            /\ families[f].defaultStrip =
                    IF families[f].config.strip = Undefined THEN False
                    ELSE families[f].config.strip
    /\ SameCallAsRemembered => last.out = prev.call.out
    /\ FactoryCall /\ Threw /\ last.arg.self.t # "object" =>
        /\ last.out.result.cls = Family.config.error.v
        /\ last.out.message =
                IF Family.config.strip = True /\ factory_isProduction(env)
                THEN FamilyLabel
                ELSE Formatted(Family.config.formatMessage)

\* a call on a family whose config object was rewritten since, while another
\* family exists, gives what the same call gave before
C13_Witness ==
    /\ SameCallAsRemembered
    /\ last.op = "ensure"
    /\ last.fam = 1
    /\ last.arg = MessageArg(Str("Required"))
    /\ Threw
    /\ families[2] # NoFamily
    /\ families[2].config # families[1].config
    /\ configs[1] # families[1].config
    /\ last.out = prev.call.out
    /\ last.out.result.cls = families[1].config.error.v

\* the strip policy in force for the call c
PolicyOf(c) ==
    IF c.op = "assert" THEN c.arg.fields.strip = True
    ELSE IF c.arg.fields.strip \in {True, False} THEN c.arg.fields.strip = True
    ELSE families[c.fam].config.strip = True

\* what the probe of the call c reports in the environment e
ProbeOf(c, e) ==
    IF c.op = "assert" THEN assert_isProduction(e) ELSE factory_isProduction(e)

\* whether the failing call c raised the stripped label
RaisedLabel(c) ==
    IF c.op = "assert" THEN c.out.message = Str("Assertion failed")
    ELSE IF families[c.fam].config.name = Undefined
    THEN c.out.message = Str("Invariant failed")
    ELSE c.out.message = families[c.fam].config.name

FailingCall(c) == c.op \in {"ensure", "instance", "assert"} /\ c.out.outcome = "throw"

\* C14: a failing call raises the stripped label exactly when its strip
\* policy is true and the probe reports production in the environment of
\* that call; two failing calls with the same policy and the same probe
\* result make the same choice; the probe is read at the call, so the
\* present environment decides, not the one of the creation or of an
\* earlier call.
C14_ChoiceIsFunctionOfPolicyAndProbe ==
    /\ FailingCall(last) =>
            (RaisedLabel(last) <=> PolicyOf(last) /\ ProbeOf(last, env))
    /\ /\ prev # NoHistory
       /\ FailingCall(prev.call)
       /\ FailingCall(last)
       /\ PolicyOf(prev.call) = PolicyOf(last)
       /\ ProbeOf(prev.call, prev.env) = ProbeOf(last, env)
       => RaisedLabel(prev.call) = RaisedLabel(last)

\* the same failing call, first in development, then in production
C14_Witness ==
    /\ prev # NoHistory
    /\ FailingCall(prev.call)
    /\ FailingCall(last)
    /\ last.op = "ensure"
    /\ prev.call.op = last.op
    /\ prev.call.fam = last.fam
    /\ prev.call.arg = last.arg
    /\ PolicyOf(last)
    /\ ~factory_isProduction(prev.env)
    /\ factory_isProduction(env)
    /\ ~RaisedLabel(prev.call)
    /\ RaisedLabel(last)

\* whether the check of the call of `last` passes
CheckPasses ==
    CASE last.op = "ensure" -> last.value \notin {Null, Undefined, False}
      [] last.op = "instance" ->
            last.value.t = "object" /\ IsSubclass(last.value.cls, last.ctor.v)
      [] last.op = "assert" ->
            last.value \notin {False, Null, Undefined, Zero, Str(""), NaN}

\* C15: every call of a checker, an instance check or assert ends in exactly
\* one of two outcomes: it returns, when the check passed, without having run
\* any step of the failure pipeline, or it raises one error, when the check
\* failed, having run no step of the pipeline more than once; the failure
\* pipeline never returns normally.
C15_ReturnsOrRaisesOnce ==
    CheckCall =>
        /\ last.out.outcome \in {"return", "throw"}
        /\ Returned <=> CheckPasses
        /\ Threw <=> ~CheckPasses
        /\ Returned =>
            /\ last.out.msgCalls = 0
            /\ last.out.fmtCalls = 0
            /\ last.out.probeCalls = 0
        /\ Threw =>
            /\ last.out.result.t = "object"
            /\ IsSubclass(last.out.result.cls, "Error")
            /\ last.out.msgCalls \in {0, 1}
            /\ last.out.fmtCalls \in {0, 1}
            /\ last.out.probeCalls \in {0, 1}

C15_Witness ==
    /\ last.op = "assert"
    /\ last.value = Zero
    /\ LazyMessage
    /\ last.arg.fields.formatMessage # Undefined
    /\ last.arg.fields.strip = True
    /\ Threw
    /\ last.out.result.cls = "AssertError"
    /\ last.out.msgCalls = 1
    /\ last.out.fmtCalls = 1
    /\ last.out.probeCalls = 1

\* every environment read the probe of the call of `last` makes is unavailable
\* or denied: the factory's probe reads Deno only; assert's reads Deno, then
\* Node, then the bundler flag
ProbeUnavailable ==
    IF last.op = "assert"
    THEN env.deno \in {"absent", "denied"} /\ env.node = "absent" /\ ~env.bundlerProd
    ELSE env.deno \in {"absent", "denied"}

\* the class a failing call of `last` is to raise
ExpectedClass ==
    IF last.arg.fields.error # Undefined THEN last.arg.fields.error.v
    ELSE IF last.op = "assert" THEN "AssertError"
    ELSE Family.config.error.v

\* C16: when the environment read behind the probe is unavailable or denied,
\* a failing call, whatever its strip policy, raises the error of the
\* selected class (the family's when there is no override) with the
\* unstripped message: the probe reported not-production and its own failure
\* did not come out of the call.
C16_ProbeDegrades ==
    CheckCall /\ Threw /\ ProbeUnavailable =>
        /\ last.out.message = Formatted(ConfiguredFormatter)
        /\ last.out.result.cls = ExpectedClass

C16_Witness ==
    /\ last.op = "ensure"
    /\ Threw
    /\ env.deno = "denied"
    /\ EffectiveStrip
    /\ last.arg.fields.error = Undefined
    /\ last.out.probeCalls = 1
    /\ last.out.result.cls = Family.config.error.v
    /\ last.out.message = Str("Required")

\* the call of `last` is made on the invariant validator without a per-call
\* strip or error override
PlainInvariantCall ==
    /\ last.op \in {"ensure", "isError"}
    /\ Family.config = InvariantConfig
    /\ last.arg.fields.strip = Undefined
    /\ last.arg.fields.error = Undefined

\* C17: invariant returns the value when it is not null, undefined or false;
\* on failure it raises an InvariantError whose message is "Invariant failed"
\* when the probe reports production and the supplied message otherwise;
\* isInvariantError returns true on the raised error.
C17_Invariant ==
    PlainInvariantCall =>
        /\ last.op = "ensure" /\ last.value \notin {Null, Undefined, False} =>
            /\ Returned
            /\ last.out.result = last.value
        /\ last.op = "ensure" /\ last.value \in {Null, Undefined, False} =>
            /\ Threw
            /\ last.out.result.cls = "InvariantError"
            /\ isError(Family, last.out.result)
            /\ factory_isProduction(env) =>
                    last.out.message = Str("Invariant failed")
            /\ ~factory_isProduction(env) => last.out.message = MessageText
        /\ last.op = "isError" /\ last.value = Obj("InvariantError", "invariantError") =>
            last.out.result = True

C17_Witness ==
    /\ PlainInvariantCall
    /\ last.op = "ensure"
    /\ last.value = Undefined
    /\ last.arg = MessageArg(Str("Required"))
    /\ factory_isProduction(env)
    /\ Threw
    /\ last.out.result.cls = "InvariantError"
    /\ last.out.message = Str("Invariant failed")

\* the options of the assert call that corresponds to the factory call of
\* `last`: the same message, error and cause, the strip setting in force and
\* the family's formatter, given inline
CorrespondingAssertArg ==
    OptionsArg([NoFields EXCEPT
                    !.message = SuppliedMessage,
                    !.error = last.arg.fields.error,
                    !.cause = last.arg.fields.cause,
                    !.strip = IF EffectiveStrip THEN True ELSE False,
                    !.formatMessage = Family.config.formatMessage])

\* C18: on a failing input, with options that use the shared fields only, an
\* equal formatter, an equal strip setting and an equal probe result, a
\* factory checker and assert invoke the message callable equally often and
\* the formatter equally often, raise the same class when one is given by an
\* override, attach the same cause and, when not stripped, raise the same
\* message.
C18_FactoryAndAssertAgree ==
    /\ FactoryCall
    /\ Threw
    /\ last.arg.fields.formatMessage = Undefined
    /\ factory_isProduction(env) = assert_isProduction(env)
    => LET a == assert(False, CorrespondingAssertArg, env)
       IN  /\ a.outcome = "throw"
           /\ a.msgCalls = last.out.msgCalls
           /\ a.fmtCalls = last.out.fmtCalls
           /\ last.arg.fields.error # Undefined =>
                    a.result.cls = last.out.result.cls
           /\ a.cause = last.out.cause
           /\ ~Stripped => a.message = last.out.message

\* the outcome of the assert call of `last` had it been made without cleanStack
WithoutCleanStack ==
    assert(last.value, [last.arg EXCEPT !.fields.cleanStack = Undefined], env)

\* C19: in a failing assert, when cleanStack is true and the runtime has
\* Error.captureStackTrace, the raised error's trace does not contain the
\* assert frame; when cleanStack is false or absent, or the runtime lacks the
\* capability, the trace is untouched; either way one error is raised, of the
\* same class, message and cause as without cleanStack.
C19_CleanStack ==
    last.op = "assert" /\ Threw =>
        /\ last.arg.fields.cleanStack = True /\ env.captureStackTrace =>
                last.out.stack = <<"caller">>
        /\ last.arg.fields.cleanStack # True \/ ~env.captureStackTrace =>
                last.out.stack = <<"assert", "caller">>
        /\ WithoutCleanStack.outcome = "throw"
        /\ last.out.result = WithoutCleanStack.result
        /\ last.out.message = WithoutCleanStack.message
        /\ last.out.cause = WithoutCleanStack.cause
        /\ last.out.result.cls = ExpectedClass

C19_Witness ==
    /\ last.op = "assert"
    /\ Threw
    /\ last.arg.fields.cleanStack = True
    /\ env.captureStackTrace
    /\ last.out.stack = <<"caller">>
    /\ last.out.message = Str("Required")

\* C20: a family's type guard returns true on an instance of the family's
\* class and only on values that are instances of it; it returns false on an
\* instance of a superclass of the family's class (Error, Object) and on an
\* instance of a sibling class (another class that extends Error).
C20_GuardRejectsSuperclassAndSiblings ==
    last.op = "isError" /\ last.value.t = "object" =>
        /\ last.value.cls = Family.config.error.v => last.out.result = True
        /\ /\ last.value.cls # Family.config.error.v
           /\ IsSubclass(Family.config.error.v, last.value.cls)
           => last.out.result = False
        /\ /\ Extends(last.value.cls) = Extends(Family.config.error.v)
           /\ last.value.cls # Family.config.error.v
           => last.out.result = False
        /\ Unrelated(last.value.cls, Family.config.error.v) => last.out.result = False
        /\ last.out.result = True => IsSubclass(last.value.cls, Family.config.error.v)

\* the guard of a ValidationError family on a plain Error
C20_Witness ==
    /\ last.op = "isError"
    /\ Family.config.error = Class("ValidationError")
    /\ last.value = Obj("Error", "error")
    /\ Returned
    /\ last.out.result = False

\* a failing assert call that takes the stripped branch
StrippedAssert ==
    /\ last.op = "assert"
    /\ Threw
    /\ last.arg.fields.strip = True
    /\ assert_isProduction(env)

\* C22: in assert the strip check comes before message resolution: on a
\* failing call with strip: true while the probe reports production the lazy
\* message is not invoked and the formatter is not applied.
C22_AssertStripsBeforeResolving ==
    StrippedAssert =>
        /\ last.out.msgCalls = 0
        /\ last.out.fmtCalls = 0

\* C23: in assert formatting comes before stripping: on a failing call the
\* lazy message is resolved and a configured formatter is applied to it,
\* stripped or not; then with strip true and the probe reporting production
\* the raised message is the literal "Assertion failed" whatever the message
\* and the formatter were, and with strip false or unset it is the formatted
\* message.
C23_AssertFormatsBeforeStripping ==
    last.op = "assert" /\ Threw =>
        /\ last.out.msgCalls = IF LazyMessage THEN 1 ELSE 0
        /\ last.out.fmtCalls = IF last.arg.fields.formatMessage # Undefined THEN 1 ELSE 0
        /\ StrippedAssert => last.out.message = Str("Assertion failed")
        /\ last.arg.fields.strip # True =>
                last.out.message = Formatted(last.arg.fields.formatMessage)

C23_Witness ==
    /\ StrippedAssert
    /\ LazyMessage
    /\ last.arg.fields.formatMessage = Formatter("[V] ")
    /\ last.out.msgCalls = 1
    /\ last.out.fmtCalls = 1
    /\ last.out.message = Str("Assertion failed")

\* C24: stripping and class selection are independent: a failing factory call
\* that is stripped and carries a per-call error override B raises an
\* instance of B whose message is the stripped label (the family's name, or
\* "Invariant failed" without one).
C24_StrippedOverrideKeepsClass ==
    /\ FactoryCall
    /\ Threw
    /\ EffectiveStrip
    /\ factory_isProduction(env)
    /\ last.arg.fields.error # Undefined
    => /\ last.out.result.t = "object"
       /\ last.out.result.cls = last.arg.fields.error.v
       /\ last.out.message = FamilyLabel

C24_Witness ==
    /\ last.op = "ensure"
    /\ Threw
    /\ Family.config.strip = True
    /\ Family.config.name = Str("validate")
    /\ last.arg.fields.strip = Undefined
    /\ factory_isProduction(env)
    /\ last.arg.fields.error = Class("AuthError")
    /\ last.out.result.cls = "AuthError"
    /\ last.out.message = Str("validate")

\* the strip policy of the call of `last`: for assert the strip option
CallStripPolicy ==
    IF last.op = "assert" THEN last.arg.fields.strip = True ELSE EffectiveStrip

\* C29: the probe is read only on a failing call whose effective strip policy
\* is true: on a passing call, and on a failing call with strip false or
\* unset, of a factory checker or of assert, the environment is never read.
C29_ProbeReadOnlyWhenStripping ==
    CheckCall =>
        /\ Returned => last.out.probeCalls = 0
        /\ Threw /\ ~CallStripPolicy => last.out.probeCalls = 0
        /\ last.out.probeCalls > 0 => Threw /\ CallStripPolicy

C29_Witness ==
    /\ last.op = "instance"
    /\ Threw
    /\ Family.config.strip = True
    /\ last.arg.fields.strip = False
    /\ factory_isProduction(env)
    /\ last.out.probeCalls = 0
    /\ last.out.message = Formatted(Family.config.formatMessage)

\* C30: in every environment the production probe of the factory checkers
\* and the production probe of assert report the same boolean, so a failing
\* factory call with strip true raises its label exactly when a failing
\* assert with strip true would raise "Assertion failed".
C30_ProbesAgree ==
    /\ factory_isProduction(env) = assert_isProduction(env)
    /\ FactoryCall /\ Threw /\ EffectiveStrip =>
            (last.out.message = FamilyLabel <=> assert_isProduction(env))

\* the remembered call and the present one are the guards of two families of
\* different classes, applied to the same value
TwoGuardsOnOneValue ==
    /\ prev # NoHistory
    /\ prev.call.op = "isError"
    /\ last.op = "isError"
    /\ prev.call.value = last.value
    /\ last.value.t = "object"
    /\ families[prev.call.fam].config.error # families[last.fam].config.error

\* the value is an instance of a third class, unrelated to both families'
OfThirdClass ==
    /\ Unrelated(last.value.cls, families[prev.call.fam].config.error.v)
    /\ Unrelated(last.value.cls, families[last.fam].config.error.v)

\* C21 as stated: two type guards bound to different classes A and B return
\* different booleans on an instance of a third class unrelated to both.
C21_GuardsDisagreeOnThirdClass ==
    TwoGuardsOnOneValue /\ OfThirdClass =>
        prev.call.out.result # last.out.result

\* C21, amended: two type guards bound to different classes A and B both
\* return false on an instance of a third class unrelated to both; they
\* return different booleans on an instance of A when A and B are unrelated:
\* true from the guard of A, false from the guard of B.
C21_GuardsAgreeOnThirdClass ==
    TwoGuardsOnOneValue =>
        /\ OfThirdClass =>
            /\ prev.call.out.result = False
            /\ last.out.result = False
        /\ /\ last.value.cls = families[prev.call.fam].config.error.v
           /\ Unrelated(families[prev.call.fam].config.error.v,
                        families[last.fam].config.error.v)
           => /\ prev.call.out.result = True
              /\ last.out.result = False

C21_Witness ==
    /\ TwoGuardsOnOneValue
    /\ OfThirdClass
    /\ last.value = Obj("TypeError", "typeError")
    /\ families[prev.call.fam].config.error = Class("ValidationError")
    /\ families[last.fam].config.error = Class("AuthError")
    /\ prev.call.out.result = False
    /\ last.out.result = False

\* C25: a passing call of a checker, an instance check or assert returns,
\* whatever the shape of the argument (missing and null included), and does
\* no pipeline work: the argument is not normalized, the probe is not read,
\* neither the message callable nor the formatter is called, no error
\* object is constructed.
C25_PassingCallDoesNoWork ==
    CheckCall /\ CheckPasses =>
        /\ Returned
        /\ last.out.result = IF last.op = "assert" THEN Undefined ELSE last.value
        /\ last.out.parseCalls = 0
        /\ last.out.probeCalls = 0
        /\ last.out.msgCalls = 0
        /\ last.out.fmtCalls = 0
        /\ last.out.ctorCalls = 0

\* a passing checker call without an argument
C25_Witness ==
    /\ last.op = "ensure"
    /\ last.value = Str("hello")
    /\ last.arg = MessageArg(Undefined)
    /\ Family.config.strip = True
    /\ Returned
    /\ last.out.result = Str("hello")
    /\ last.out.parseCalls = 0

NormalizerCall == last.op \in {"parseArg", "assertOptions"}

\* C26: the normalizer of the call argument, parseArg and the one inline in
\* assert, returns for every input (missing and null included): for a
\* string or a callable a record whose message is that value and whose
\* other fields are absent, for any other value the value itself, the same
\* record and not a copy.
C26_NormalizerIsTotal ==
    NormalizerCall =>
        /\ Returned
        /\ last.arg.self.t \in {"string", "function"} =>
            /\ last.out.result.fields.message = last.arg.self
            /\ last.out.result.fields.error = Undefined
            /\ last.out.result.fields.cause = Undefined
            /\ last.out.result.fields.strip = Undefined
            /\ last.out.result.fields.formatMessage = Undefined
            /\ last.out.result.fields.cleanStack = Undefined
        /\ last.arg.self.t \notin {"string", "function"} =>
            /\ last.out.result = last.arg
            /\ last.out.result.self = last.arg.self

\* parseArg on a callable
C26_Witness ==
    /\ last.op = "parseArg"
    /\ last.arg = MessageArg(Thunk("Lazy message"))
    /\ Returned
    /\ last.out.result.fields.message = Thunk("Lazy message")
    /\ last.out.result.fields.strip = Undefined

\* C27: on a failing call that is not stripped and whose options record has
\* message: false, the final message handed to the error constructor is a
\* string, never the boolean false.
C27_FalseMessageBecomesString ==
    /\ CheckCall
    /\ Threw
    /\ last.arg.self.t = "object"
    /\ last.arg.fields.message = False
    /\ ~Stripped
    /\ last.out.ctorCalls = 1
    => /\ last.out.ctorArg.t = "string"
       /\ last.out.ctorArg # False

\* the class the pipeline of the call of `last` selects
SelectedClass ==
    IF last.arg.fields.error # Undefined THEN last.arg.fields.error.v
    ELSE IF last.op = "assert" THEN "AssertError"
    ELSE Family.config.error.v

\* the call of `last` fails on a usable argument and reaches the message
FailsAndResolves ==
    /\ CheckCall
    /\ ~CheckPasses
    /\ last.arg.self \notin {Undefined, Null}
    /\ last.op = "assert" \/ ~Stripped

MessageThrows == SuppliedMessage.cls = "throwingThunk"

FormatterThrows ==
    /\ ConfiguredFormatter # Undefined
    /\ ConfiguredFormatter.cls = "throwingFormatter"

\* C28: when the message callable, the formatter or the error class's
\* constructor throws during a failing call, the call raises that very
\* exception: no error is constructed in its place (none at all when the
\* message or the formatter threw); and the family's guard, handed the
\* caught exception, returns true only when it is an instance of the
\* family's class.
C28_ExceptionsPropagate ==
    /\ FailsAndResolves /\ MessageThrows =>
        /\ Threw
        /\ last.out.result = Obj(SuppliedMessage.v, "throwingThunk")
        /\ last.out.ctorCalls = 0
    /\ FailsAndResolves /\ ~MessageThrows /\ FormatterThrows =>
        /\ Threw
        /\ last.out.result = Obj(ConfiguredFormatter.v, "throwingFormatter")
        /\ last.out.ctorCalls = 0
    /\ /\ FailsAndResolves
       /\ ~MessageThrows
       /\ ~FormatterThrows
       /\ SelectedClass = "BrokenError"
       => /\ Threw
          /\ last.out.result = Obj("TypeError", "thrownByConstructor")
    /\ /\ last.op = "isError"
       /\ prev # NoHistory
       /\ last.value = prev.call.out.result
       => (last.out.result = True <=>
                IsSubclass(last.value.cls, Family.config.error.v))

\* the guard of a ValidationError family on the TypeError that the message
\* callable of the family's checker threw
C28_Witness ==
    /\ last.op = "isError"
    /\ prev # NoHistory
    /\ prev.call.op = "ensure"
    /\ prev.call.arg.self = ThrowingThunk("TypeError")
    /\ prev.call.out.result = Obj("TypeError", "throwingThunk")
    /\ prev.call.out.ctorCalls = 0
    /\ last.value = prev.call.out.result
    /\ Family.config.error = Class("ValidationError")
    /\ last.out.result = False

====
